---------------------------- MODULE Spec2Model ----------------------------
(***************************************************************************)
(* A model of the water-quality dashboard: the input page                  *)
(* (src/2_Manual_Input.py), the home page (src/Home_page.py) and the       *)
(* professional dashboard (src/3_OrgUseData_Dashboard.py).                 *)
(*                                                                         *)
(* Every Streamlit interaction re-runs the page script from top to bottom. *)
(* One run of the input page is modelled in steps: the interaction that    *)
(* starts the run, the reverse-geocode request (which blocks until the     *)
(* remote service answers), and the rest of the script.                    *)
(*                                                                         *)
(* Numbers: coordinates are integers in units of 1e-4 degree; readings are *)
(* exact decimals m * 10^-e, or NaN.                                       *)
(***************************************************************************)
EXTENDS Integers, Sequences, FiniteSets, TLC

VARIABLES
    pc,          \* where the run of the input page is
    point,       \* map_output["last_clicked"]: NoPoint or [lat, lon]
    button,      \* the button whose click started the current run
    response,    \* what requests.get of the current run came back with
    zipcode,     \* the variable zipcode after lines 112-119 of the current run
    raised,      \* the exception that aborted the last run, or "none"
    message,     \* the st.success / st.error of the last run's button
    file,        \* the rows of water_quality_data.csv, as written text cells
    editing,     \* the row whose edit form the last run rendered (0: none)
    view,        \* what the last run of a viewing page displayed
    text,        \* the text handed to parse_extracted_text (parser runs)
    parsed       \* what parse_extracted_text did in the last run

vars == <<pc, point, button, response, zipcode, raised, message, file, editing, view,
          text, parsed>>

---------------------------------------------------------------------------
(* Bounds of the model.                                                    *)

\* The most rows the CSV file holds.
MaxRecords == 2
\* The most pieces an extracted text is assembled from (parser runs).
MaxPieces == 3

---------------------------------------------------------------------------
(* get_nearest_zipcode: src/2_Manual_Input.py lines 21-41                  *)

\* The dict known_zipcode_coords in insertion order, which is the order
\* .items() iterates in.
known_zipcode_coords ==
    << [zip |-> "95110", lat |-> 373422, lon |-> -1218996],
       [zip |-> "95112", lat |-> 373535, lon |-> -1218865],
       [zip |-> "95113", lat |-> 373333, lon |-> -1218907],
       [zip |-> "95116", lat |-> 373496, lon |-> -1218569],
       [zip |-> "95117", lat |-> 373126, lon |-> -1219502],
       [zip |-> "95118", lat |-> 372505, lon |-> -1218891],
       [zip |-> "95120", lat |-> 372060, lon |-> -1218133] >>

\* Python's None, where a string is expected.
None == "<None>"

Abs(n) == IF n < 0 THEN -n ELSE n

\* Millimetres of WGS-84 meridian arc per 1e-4 degree of latitude at
\* 37.3 N, the latitude of the table.
MmPerLatUnit == 11098
\* Millimetres of WGS-84 parallel arc per 1e-4 degree of longitude at 37.3 N.
MmPerLonUnit == 8866

\* GeodesicSq with the longitude forgotten: the distance along the meridian
\* alone.
GeodesicSqLatOnly(lat1, lon1, lat2, lon2) ==
    LET dy == (MmPerLatUnit * Abs(lat1 - lat2)) \div 1000
    IN  dy * dy

\* geodesic((lat1, lon1), (lat2, lon2)): the square of the distance, in
\* square metres.  geopy computes the WGS-84 geodesic; over the few
\* kilometres around the table that is the local metric below to within a
\* few metres, and squaring keeps the order of distances, which is all the
\* caller uses.
GeodesicSq(lat1, lon1, lat2, lon2) ==
    LET dy == (MmPerLatUnit * Abs(lat1 - lat2)) \div 1000
        dx == (MmPerLonUnit * Abs(lon1 - lon2)) \div 1000
    IN  dy * dy + dx * dx

\* distance < min_distance, where min_distance starts as float("inf").
Closer(distance, acc) == acc.inf \/ distance < acc.min_distance

\* The loop of get_nearest_zipcode from entry k on; acc holds min_distance
\* and nearest_zipcode.
RECURSIVE NearestFrom(_, _, _, _)
NearestFrom(k, lat, lon, acc) ==
    IF k > Len(known_zipcode_coords) THEN acc.nearest_zipcode
    ELSE LET entry == known_zipcode_coords[k]
             distance == GeodesicSq(lat, lon, entry.lat, entry.lon)
         IN  NearestFrom(k + 1, lat, lon,
                 IF Closer(distance, acc)
                 THEN [inf |-> FALSE, min_distance |-> distance,
                       nearest_zipcode |-> entry.zip]
                 ELSE acc)

get_nearest_zipcode(lat, lon) ==
    NearestFrom(1, lat, lon,
                [inf |-> TRUE, min_distance |-> 0, nearest_zipcode |-> None])


---------------------------------------------------------------------------
(* get_zipcode_from_coordinates: src/2_Manual_Input.py lines 43-56         *)

\* JSON values as Python sees them after response.json(): t is the Python
\* type, has the strings s for which "s in value" is true (the keys of a
\* dict, the substrings of a str), and address/postcode the values under
\* those keys.
JNull == [t |-> "NoneType", has |-> {}]
JNumber == [t |-> "int", has |-> {}]
JList == [t |-> "list", has |-> {}]
JAddress(postcode) ==
    [t |-> "dict", has |-> {"postcode"}, postcode |-> postcode]
\* The postcodes the remote service is given to answer with; the service is
\* not under the program's control, and an empty string is a string.
RemotePostcodes == {"95110", ""}

JsonBodies ==
    \* {"address": {"postcode": z, ...}, ...}
    { [t |-> "dict", has |-> {"address"}, address |-> JAddress(z)] :
          z \in RemotePostcodes }
    \cup
    { \* {"address": {"city": ...}}: an address without a postcode
      [t |-> "dict", has |-> {"address"},
       address |-> [t |-> "dict", has |-> {}]],
      \* {"error": "Unable to geocode"}: no address at all
      [t |-> "dict", has |-> {}],
      \* {"address": null}
      [t |-> "dict", has |-> {"address"}, address |-> JNull],
      \* {"address": "no postcode here"}: a string holding the word
      [t |-> "dict", has |-> {"address"},
       address |-> [t |-> "str", has |-> {"postcode"}]],
      \* []
      JList,
      \* 0
      JNumber }

\* What requests.get / raise_for_status / response.json() end in: one of
\* the exceptions of requests, or the JSON value of the body.  A body that
\* is not JSON ends in requests.exceptions.JSONDecodeError, which is a
\* RequestException (requests 2.27 and later).
RequestExceptions ==
    {"ConnectionError", "Timeout", "HTTPError", "JSONDecodeError"}
Responses ==
    { [kind |-> k, data |-> JNull] : k \in RequestExceptions }
    \cup
    { [kind |-> "json", data |-> d] : d \in JsonBodies }

\* Python's "key in value": a TypeError when value is not a container.
PyInRaises(value) == value.t \notin {"dict", "list", "str"}
PyIn(key, value) == key \in value.has
\* Python's value[key] with a str key: only a dict accepts it.
PyIndexRaises(value) == value.t # "dict"

Returned(z) == [exc |-> "none", ret |-> z]
Raised(e) == [exc |-> e, ret |-> None]

\* The call with the remote service answering resp: what it returns, or the
\* exception that leaves it.
get_zipcode_from_coordinates(lat, lon, resp) ==
    IF resp.kind \in RequestExceptions
    THEN \* except requests.RequestException (lines 54-56)
         Returned(get_nearest_zipcode(lat, lon))
    ELSE LET data == resp.data IN
         \* line 50, left operand
         IF PyInRaises(data) THEN Raised("TypeError")
         ELSE IF ~PyIn("address", data)
         THEN Returned(get_nearest_zipcode(lat, lon))
         \* line 50, right operand
         ELSE IF PyInRaises(data.address) THEN Raised("TypeError")
         ELSE IF ~PyIn("postcode", data.address)
         THEN Returned(get_nearest_zipcode(lat, lon))
         \* line 51
         ELSE IF PyIndexRaises(data.address) THEN Raised("TypeError")
         ELSE Returned(data.address.postcode)

---------------------------------------------------------------------------
(* Readings and the CSV file: src/2_Manual_Input.py lines 58-66, 153-161   *)

\* The columns of the five parameters, in the order every dict of the three
\* pages lists them.
Params ==
    << "pH", "Chlorine (mg/L)", "Hardness (mg/L as CaCO3)",
       "Nitrates (mg/L)", "Lead (ug/L)" >>
ParamSet == { Params[k] : k \in 1..Len(Params) }

\* A float: m * 10^-e with no trailing zero in the fraction, or NaN.
RECURSIVE Num(_, _)
Num(m, e) ==
    IF e > 0 /\ m % 10 = 0 THEN Num(m \div 10, e - 1)
    ELSE [nan |-> FALSE, m |-> m, e |-> e]
NaN == [nan |-> TRUE, m |-> 0, e |-> 0]

RECURSIVE Pow10(_)
Pow10(e) == IF e = 0 THEN 1 ELSE 10 * Pow10(e - 1)

\* IEEE comparisons: every comparison with NaN is false.
Less(a, b) ==
    ~a.nan /\ ~b.nan /\ a.m * Pow10(b.e) < b.m * Pow10(a.e)
LessEq(a, b) ==
    ~a.nan /\ ~b.nan /\ a.m * Pow10(b.e) <= b.m * Pow10(a.e)

\* The values pandas.read_csv reads as missing, among the texts of at most
\* five characters (max_chars=5, line 122).
NaTexts ==
    { "", "#N/A", "#NA", "-NaN", "-nan", "<NA>", "N/A", "NA", "NULL", "NaN",
      "n/a", "nan", "null" }
\* The texts of whole numbers that can reach the Zipcode column.
IntTexts ==
    { known_zipcode_coords[k].zip : k \in 1..Len(known_zipcode_coords) }
    \cup (RemotePostcodes \ {""})
\* What to_csv writes for the float64 of such a number.
FloatText(z) == z \o ".0"
FloatTexts == { FloatText(z) : z \in IntTexts }
DigitsOf(t) == CHOOSE z \in IntTexts : t \in {z, FloatText(z)}

\* A cell of the Zipcode column in memory: an int64, a float64, a str, or
\* the float NaN.
ZInt(z) == [k |-> "int", s |-> z]
ZFloat(z) == [k |-> "float", s |-> z]
ZStr(z) == [k |-> "str", s |-> z]
ZNaN == [k |-> "nan", s |-> ""]

\* pd.read_csv(DATA_FILE) on the Zipcode column (no dtype given): the
\* column is int64 when every cell is a whole number, float64 when every
\* cell is a number or missing, and otherwise object, with the missing
\* cells NaN in all three.
ReadZipcode(rows, i) ==
    LET cells == { rows[j].zone : j \in 1..Len(rows) }
        t == rows[i].zone
    IN  IF t \in NaTexts THEN ZNaN
        ELSE IF cells \subseteq IntTexts THEN ZInt(t)
        ELSE IF cells \subseteq (IntTexts \cup FloatTexts \cup NaTexts)
        THEN ZFloat(DigitsOf(t))
        ELSE ZStr(t)

\* load_data(): the DataFrame, one record per row.  The reading columns
\* are float64 and a float's text reads back as the same float; a missing
\* reading is written as the empty cell and reads back as NaN.
load_data(rows) ==
    [ i \in 1..Len(rows) |->
          [zone |-> ReadZipcode(rows, i), vals |-> rows[i].vals] ]

\* to_csv on one cell of the Zipcode column.
WriteZipcode(z) ==
    CASE z.k = "int" -> z.s
      [] z.k = "float" -> FloatText(z.s)
      [] z.k = "str" -> z.s
      [] z.k = "nan" -> ""

\* save_data(data): data.to_csv(DATA_FILE, index=False).
save_data(data) ==
    [ i \in 1..Len(data) |->
          [zone |-> WriteZipcode(data[i].zone), vals |-> data[i].vals] ]

\* pd.DataFrame([{**readings, "Zipcode": zipcode, "Date": now}]) aligned to
\* the columns of the file by pd.concat: a parameter the dict lacks is NaN.
\* (The Date cell, the time of the call, is not modelled.)
NewRow(zip, readings) ==
    [zone |-> ZStr(zip),
     vals |-> [ p \in ParamSet |->
                  IF p \in DOMAIN readings THEN readings[p] ELSE NaN ]]

---------------------------------------------------------------------------
(* parse_extracted_text: src/2_Manual_Input.py lines 75-90                 *)

\* A text is a sequence of one-character strings.

\* re.IGNORECASE on the letters of the patterns.
Lower(c) ==
    CASE c = "A" -> "a"
      [] c = "B" -> "b"
      [] c = "C" -> "c"
      [] c = "D" -> "d"
      [] c = "E" -> "e"
      [] c = "F" -> "f"
      [] c = "G" -> "g"
      [] c = "H" -> "h"
      [] c = "I" -> "i"
      [] c = "J" -> "j"
      [] c = "K" -> "k"
      [] c = "L" -> "l"
      [] c = "M" -> "m"
      [] c = "N" -> "n"
      [] c = "O" -> "o"
      [] c = "P" -> "p"
      [] c = "Q" -> "q"
      [] c = "R" -> "r"
      [] c = "S" -> "s"
      [] c = "T" -> "t"
      [] c = "U" -> "u"
      [] c = "V" -> "v"
      [] c = "W" -> "w"
      [] c = "X" -> "x"
      [] c = "Y" -> "y"
      [] c = "Z" -> "z"
      [] OTHER -> c

\* The class [:\s] of the patterns.
IsSeparator(c) == c \in {":", " ", "\t", "\n", "\r"}
\* The class [\d.] of the patterns.
IsDigit(c) == c \in {"0", "1", "2", "3", "4", "5", "6", "7", "8", "9"}
IsNumberChar(c) == IsDigit(c) \/ c = "."
DigitValue(c) ==
    CASE c = "0" -> 0 [] c = "1" -> 1 [] c = "2" -> 2 [] c = "3" -> 3
      [] c = "4" -> 4 [] c = "5" -> 5 [] c = "6" -> 6 [] c = "7" -> 7
      [] c = "8" -> 8 [] c = "9" -> 9

\* The literal each pattern starts with, lower-cased.
Label(param) ==
    CASE param = "pH" -> <<"p", "h">>
      [] param = "Chlorine (mg/L)" -> <<"c", "h", "l", "o", "r", "i", "n", "e">>
      [] param = "Hardness (mg/L as CaCO3)" -> <<"h", "a", "r", "d", "n", "e", "s", "s">>
      [] param = "Nitrates (mg/L)" -> <<"n", "i", "t", "r", "a", "t", "e", "s">>
      [] param = "Lead (ug/L)" -> <<"l", "e", "a", "d">>

\* The literal of the pattern matches txt at position p.
LabelAt(label, txt, p) ==
    /\ p + Len(label) - 1 <= Len(txt)
    /\ \A k \in 1..Len(label) : Lower(txt[p + k - 1]) = label[k]

\* The first position at or after p that [:\s]* does not consume.
RECURSIVE SkipSeparators(_, _)
SkipSeparators(txt, p) ==
    IF p <= Len(txt) /\ IsSeparator(txt[p]) THEN SkipSeparators(txt, p + 1)
    ELSE p

\* The end of what [\d.]+ consumes from position p: the last position of
\* the run of digits and dots (p - 1 if there is none).
RECURSIVE NumberEnd(_, _)
NumberEnd(txt, p) ==
    IF p <= Len(txt) /\ IsNumberChar(txt[p]) THEN NumberEnd(txt, p + 1)
    ELSE p - 1

\* The pattern label[:\s]*([\d.]+) matches txt starting at position p.
MatchesAt(label, txt, p) ==
    /\ LabelAt(label, txt, p)
    /\ LET q == SkipSeparators(txt, p + Len(label))
       IN  NumberEnd(txt, q) >= q

\* match.group(1) of the match starting at p.
Group1(label, txt, p) ==
    LET q == SkipSeparators(txt, p + Len(label))
    IN  SubSeq(txt, q, NumberEnd(txt, q))

\* re.search: the leftmost position where the pattern matches, 0 for None.
Search(label, txt) ==
    LET hits == { p \in 1..Len(txt) : MatchesAt(label, txt, p) }
    IN  IF hits = {} THEN 0
        ELSE CHOOSE p \in hits : \A q \in hits : p <= q

Dots(token) == Cardinality({ k \in 1..Len(token) : token[k] = "." })
HasDigit(token) == \E k \in 1..Len(token) : IsDigit(token[k])

\* float(token) raises ValueError: a run of digits and dots is a float
\* literal only with at most one dot and at least one digit.
FloatRaises(token) == Dots(token) > 1 \/ ~HasDigit(token)

\* The digits of the token read as one whole number.
RECURSIVE Mantissa(_)
Mantissa(token) ==
    IF token = <<>> THEN 0
    ELSE LET c == token[Len(token)]
             rest == SubSeq(token, 1, Len(token) - 1)
         IN  IF c = "." THEN Mantissa(rest)
             ELSE 10 * Mantissa(rest) + DigitValue(c)

\* The number of digits after the dot.
FractionDigits(token) ==
    IF Dots(token) = 0 THEN 0
    ELSE LET d == CHOOSE k \in 1..Len(token) : token[k] = "."
         IN  Len(token) - d

\* float(token) for a token that is a float literal.
Float(token) == Num(Mantissa(token), FractionDigits(token))

\* The loop of parse_extracted_text from pattern k on; readings is the dict
\* built so far.  A ValueError of float() leaves the function.
RECURSIVE ParseFrom(_, _, _)
ParseFrom(k, txt, readings) ==
    IF k > Len(Params) THEN [exc |-> "none", readings |-> readings]
    ELSE LET param == Params[k]
             p == Search(Label(param), txt)
         IN  IF p = 0 THEN ParseFrom(k + 1, txt, readings)
             ELSE LET token == Group1(Label(param), txt, p)
                  IN  IF FloatRaises(token)
                      THEN [exc |-> "ValueError", readings |-> <<>>]
                      ELSE ParseFrom(k + 1, txt,
                               [ q \in DOMAIN readings \cup {param} |->
                                   IF q = param THEN Float(token)
                                   ELSE readings[q] ])

\* Python's empty dict: the function with no argument.
EmptyDict == <<>>

parse_extracted_text(txt) == ParseFrom(1, txt, EmptyDict)

---------------------------------------------------------------------------
(* The home page: src/Home_page.py lines 8-39, 84-106                      *)

\* SAFE_RANGES[param]["range"].
SAFE_RANGES(param) ==
    CASE param = "pH" -> [min |-> Num(65, 1), max |-> Num(85, 1)]
      [] param = "Chlorine (mg/L)" -> [min |-> Num(0, 0), max |-> Num(4, 0)]
      [] param = "Hardness (mg/L as CaCO3)" ->
             [min |-> Num(0, 0), max |-> Num(120, 0)]
      [] param = "Nitrates (mg/L)" -> [min |-> Num(0, 0), max |-> Num(10, 0)]
      [] param = "Lead (ug/L)" -> [min |-> Num(0, 0), max |-> Num(15, 0)]

\* min_val <= value <= max_val
is_within_safe_range(value, min_val, max_val) ==
    LessEq(min_val, value) /\ LessEq(value, max_val)

\* load_data() of the home page: pd.read_csv(DATA_FILE, parse_dates=
\* ["Date"]) reads the Zipcode and reading columns as the input page does.
load_data_home(rows) == load_data(rows)

\* Line 102, st.progress(min(current_value / max(safe_max, current_value),
\* 1.0)), raises: for a reading that is a number the argument lies in
\* [0.0, 1.0]; for NaN, max() keeps safe_max, the quotient and min() are
\* NaN, and st.progress rejects a value that is not in [0.0, 1.0].
ProgressRaises(current_value, safe_max) == current_value.nan

\* The loop of lines 85-106 over SAFE_RANGES.items() from parameter k on;
\* statuses are the levels displayed so far (line 95).
RECURSIVE EvaluateFrom(_, _, _)
EvaluateFrom(k, entry_data, statuses) ==
    IF k > Len(Params) THEN [exc |-> "none", statuses |-> statuses]
    ELSE LET param == Params[k]
             current_value == entry_data.vals[param]
             range == SAFE_RANGES(param)
             in_safe_range ==
                 is_within_safe_range(current_value, range.min, range.max)
             shown == Append(statuses,
                             [parameter |-> param, value |-> current_value,
                              in_range |-> in_safe_range])
         IN  IF ProgressRaises(current_value, range.max)
             THEN [exc |-> "StreamlitAPIException", statuses |-> shown]
             ELSE EvaluateFrom(k + 1, entry_data, shown)

---------------------------------------------------------------------------
(* The dashboard: src/3_OrgUseData_Dashboard.py lines 8-22, 42-50, 78-87   *)

REGULATORY_STANDARDS(param) ==
    CASE param = "pH" -> [min |-> Num(65, 1), max |-> Num(85, 1)]
      [] param = "Chlorine (mg/L)" -> [min |-> Num(0, 0), max |-> Num(4, 0)]
      [] param = "Hardness (mg/L as CaCO3)" ->
             [min |-> Num(0, 0), max |-> Num(120, 0)]
      [] param = "Nitrates (mg/L)" -> [min |-> Num(0, 0), max |-> Num(10, 0)]
      [] param = "Lead (ug/L)" -> [min |-> Num(0, 0), max |-> Num(15, 0)]

\* load_data() of the dashboard: dtype={"Zipcode": str} keeps the text of a
\* cell, and a missing cell is still NaN.
load_data_dashboard(rows) ==
    [ i \in 1..Len(rows) |->
          [zone |-> IF rows[i].zone \in NaTexts THEN ZNaN
                    ELSE ZStr(rows[i].zone),
           vals |-> rows[i].vals] ]

\* Line 39: the options of the multiselect, data["Zipcode"].unique()
\* (without the NaN, which names no zipcode).
Zipcodes(data) ==
    { data[i].zone.s : i \in { j \in 1..Len(data) : data[j].zone.k # "nan" } }

\* Lines 43-50: the rows of data the filter keeps, by index.  The date
\* range, when given, is taken to span every record.
filtered_data(data, selected_zipcodes) ==
    IF selected_zipcodes # {}
    THEN { i \in 1..Len(data) :
             data[i].zone.k # "nan" /\ data[i].zone.s \in selected_zipcodes }
    ELSE 1..Len(data)

\* Line 82: the rows with (value < min_val) | (value > max_val).
non_compliant_data(data, rows, param) ==
    LET std == REGULATORY_STANDARDS(param)
    IN  { i \in rows : \/ Less(data[i].vals[param], std.min)
                       \/ Less(std.max, data[i].vals[param]) }

---------------------------------------------------------------------------
(* The inputs the model draws from.                                        *)

NoPoint == [clicked |-> FALSE]
\* Points the user clicks on the map: (37.35, -121.90), and (37.3347,
\* -121.8687), which the metric above puts at the same distance from
\* "95113" and "95116".
Points ==
    { [lat |-> 373500, lon |-> -1219000],
      [lat |-> 373347, lon |-> -1218687] }

\* The "Confirm Zipcode" field (line 122): left at its default, the
\* detected zipcode, or overwritten with a text of at most five characters.
NoEdit == "<default>"
ConfirmTexts == {NoEdit, "", "NA"}

Reading(ph, cl, hard, nit, lead) ==
    [ p \in ParamSet |->
        CASE p = "pH" -> ph
          [] p = "Chlorine (mg/L)" -> cl
          [] p = "Hardness (mg/L as CaCO3)" -> hard
          [] p = "Nitrates (mg/L)" -> nit
          [] p = "Lead (ug/L)" -> lead ]

\* What the five number_input fields (lines 130-136) hold: every value on a
\* bound of its band; and pH 9.0 with the rest inside.
ManualReadings ==
    { Reading(Num(65, 1), Num(4, 0), Num(120, 0), Num(0, 0), Num(15, 0)),
      Reading(Num(9, 0), Num(15, 1), Num(60, 0), Num(10, 0), Num(0, 0)) }

\* What extract_text_from_image returns for the uploaded image.
UploadTexts ==
    { <<"p", "H", ":", " ", "7", ".", "2", " ", "C", "h", "l", "o", "r", "i", "n", "e", " ", "1", ".", "5", "m", "g", "/", "L">>,
      <<"p", "H", " ", "7", ".", "2", ".">>,
      <<"n", "o", " ", "r", "e", "a", "d", "i", "n", "g", "s">> }

\* The state of the widgets of lines 125-138 in one run.
Inputs ==
    { [method |-> "Manual Input", readings |-> r, uploaded |-> FALSE,
       text |-> <<>>] : r \in ManualReadings }
    \cup
    { [method |-> "Image Upload", readings |-> EmptyDict, uploaded |-> TRUE,
       text |-> t] : t \in UploadTexts }
    \cup
    { [method |-> "Image Upload", readings |-> EmptyDict, uploaded |-> FALSE,
       text |-> <<>>] }

\* Lines 127-150: the dict readings, or the exception of the parser.
ReadingsOf(input) ==
    IF input.method = "Manual Input"
    THEN [exc |-> "none", readings |-> input.readings]
    ELSE IF input.uploaded THEN parse_extracted_text(input.text)
    ELSE [exc |-> "none", readings |-> EmptyDict]

\* The same, tabulated over the inputs of the model.
CollectedReadings == [ input \in Inputs |-> ReadingsOf(input) ]
CollectReadings(input) == CollectedReadings[input]

NoButton == [kind |-> "none", row |-> 0]
NoResponse == [kind |-> "none"]
NoView == [page |-> "input"]
NotParsed == [exc |-> "not called", readings |-> EmptyDict]

\* Line 146: what the call of parse_extracted_text in this run did; the
\* call is made only with an image uploaded.
ParserCall(input) ==
    IF input.method = "Image Upload" /\ input.uploaded
    THEN CollectReadings(input)
    ELSE NotParsed

---------------------------------------------------------------------------
(* The input page: src/2_Manual_Input.py lines 99-201                      *)

Init ==
    /\ pc = "idle"
    /\ point = NoPoint
    /\ button = NoButton
    /\ response = NoResponse
    /\ zipcode = ""
    /\ raised = "none"
    /\ message = "none"
    /\ file = <<>>
    /\ editing = 0
    /\ view = NoView
    /\ text = <<>>
    /\ parsed = NotParsed

\* The page has been rendered to its end, so all its widgets are there.
Rendered == pc = "idle"
\* The page shows at least its map: a run that an exception aborted has
\* rendered what comes before the line that raised.
MapShown == pc \in {"idle", "failed in geocode", "failed in parse"}

\* A widget interaction starts a run of the script: lines 107-115 run
\* first, and call get_zipcode_from_coordinates if a point was clicked.
StartRun(b, pt) ==
    /\ point' = pt
    /\ button' = b
    /\ pc' = IF pt = NoPoint THEN "body" ELSE "waiting"
    /\ response' = NoResponse
    /\ zipcode' = ""
    /\ raised' = "none"
    /\ message' = "none"
    /\ editing' = 0
    /\ view' = NoView
    /\ parsed' = NotParsed
    /\ UNCHANGED <<file, text>>

ClickMap(p) ==
    /\ MapShown
    /\ StartRun(NoButton, p)

\* The user changes a field above the Submit button (the zipcode, the input
\* method, a reading, the uploaded image), which starts a run too.
ChangeInput ==
    /\ pc \in {"idle", "failed in parse"}
    /\ StartRun(NoButton, point)

PressSubmit ==
    /\ Rendered
    /\ Len(file) < MaxRecords
    /\ StartRun([kind |-> "submit", row |-> 0], point)

PressEdit(i) ==
    /\ Rendered
    /\ i \in 1..Len(file)
    /\ StartRun([kind |-> "edit", row |-> i], point)

\* "Save Changes" is rendered inside the block of the Edit button.
PressSave(i) ==
    /\ Rendered
    /\ editing = i
    /\ i \in 1..Len(file)
    /\ StartRun([kind |-> "save", row |-> i], point)

PressDelete(i) ==
    /\ Rendered
    /\ i \in 1..Len(file)
    /\ StartRun([kind |-> "delete", row |-> i], point)

\* The run ends in an uncaught exception: Streamlit shows the traceback and
\* nothing below the line that raised is executed.
Abort(where, exc, resp, result) ==
    /\ pc' = where
    /\ raised' = exc
    /\ button' = NoButton
    /\ response' = resp
    /\ zipcode' = ""
    /\ parsed' = result
    /\ UNCHANGED <<point, message, file, editing, view, text>>

\* requests.get(url) of line 47 comes back, with whatever the remote
\* service did, and get_zipcode_from_coordinates runs to its end.
Respond(resp) ==
    /\ pc = "waiting"
    /\ LET r == get_zipcode_from_coordinates(point.lat, point.lon, resp)
       IN  IF r.exc # "none" THEN Abort("failed in geocode", r.exc, resp, parsed)
           ELSE /\ zipcode' = r.ret
                /\ response' = resp
                /\ pc' = "body"
                /\ UNCHANGED <<point, button, raised, message, file, editing,
                               view, text, parsed>>

\* Line 146 raises: the run ends before the Submit button and the list of
\* entries are reached, whatever started it.
ParseFails(input) ==
    /\ pc = "body"
    /\ CollectReadings(input).exc # "none"
    /\ Abort("failed in parse", CollectReadings(input).exc, NoResponse,
             ParserCall(input))

\* The run reaches the end of the script.
Finish(msg, rows, form, input) ==
    /\ pc' = "idle"
    /\ button' = NoButton
    /\ response' = NoResponse
    /\ zipcode' = ""
    /\ message' = msg
    /\ file' = rows
    /\ editing' = form
    /\ parsed' = ParserCall(input)
    /\ UNCHANGED <<point, raised, view, text>>

\* A run that no button started.
Render(input) ==
    /\ pc = "body"
    /\ button.kind = "none"
    /\ CollectReadings(input).exc = "none"
    /\ Finish("none", file, 0, input)

\* Python's truth of a str and of a dict.
Truthy(str) == str # ""
NonEmpty(dict) == DOMAIN dict # {}

\* Lines 153-161 with the test of line 154 reduced to `if zipcode:`.
SubmitDataZipOnly(rows, zip, readings) ==
    IF Truthy(zip)
    THEN [message |-> "Data submitted successfully.",
          rows |-> save_data(Append(load_data(rows), NewRow(zip, readings)))]
    ELSE [message |-> "Please ensure all data fields are filled out",
          rows |-> rows]

\* Lines 153-161 with the button pressed.
SubmitData(rows, zip, readings) ==
    IF Truthy(zip) /\ NonEmpty(readings)
    THEN [message |-> "Data submitted successfully.",
          rows |-> save_data(Append(load_data(rows), NewRow(zip, readings)))]
    ELSE [message |-> "Please ensure all data fields are filled out",
          rows |-> rows]

Submit(confirm, input) ==
    /\ pc = "body"
    /\ button.kind = "submit"
    /\ CollectReadings(input).exc = "none"
    /\ LET zip == IF confirm = NoEdit THEN zipcode ELSE confirm
           done == SubmitData(file, zip, CollectReadings(input).readings)
       IN  Finish(done.message, done.rows, 0, input)

\* data.drop(i).reset_index(drop=True)
Drop(data, i) ==
    [ j \in 1..(Len(data) - 1) |-> IF j < i THEN data[j] ELSE data[j + 1] ]

\* Lines 172-198 for row i, given what the three buttons of the row return
\* in this run and what the fields of the edit form hold.
ExistingData(rows, i, edit, save, delete, edited) ==
    LET data == load_data(rows)
        saved == edit /\ save
        after_save == IF saved THEN [data EXCEPT ![i] = edited] ELSE data
        after_delete == IF delete THEN Drop(after_save, i) ELSE after_save
    IN  [rows |-> IF saved \/ delete THEN save_data(after_delete) ELSE rows,
         message |-> IF delete THEN "Entry deleted successfully."
                     ELSE IF saved THEN "Entry updated successfully."
                     ELSE "none",
         form |-> IF edit THEN i ELSE 0]

\* What the fields of the edit form can hold: the zipcode is a free text.
EditedRows ==
    { [zone |-> ZStr(z), vals |-> r] :
          z \in {"", "95110"}, r \in ManualReadings }

\* st.button returns True only in the run its click started, so in a run
\* one button at most returns True.
Edit(input) ==
    /\ pc = "body"
    /\ button.kind = "edit"
    /\ CollectReadings(input).exc = "none"
    /\ \E edited \in EditedRows :
         LET done == ExistingData(file, button.row, TRUE, FALSE, FALSE, edited)
         IN  Finish(done.message, done.rows, done.form, input)

Save(input) ==
    /\ pc = "body"
    /\ button.kind = "save"
    /\ CollectReadings(input).exc = "none"
    /\ \E edited \in EditedRows :
         LET done == ExistingData(file, button.row, FALSE, TRUE, FALSE, edited)
         IN  Finish(done.message, done.rows, done.form, input)

Delete(input) ==
    /\ pc = "body"
    /\ button.kind = "delete"
    /\ CollectReadings(input).exc = "none"
    /\ \E edited \in EditedRows :
         LET done == ExistingData(file, button.row, FALSE, FALSE, TRUE, edited)
         IN  Finish(done.message, done.rows, done.form, input)

---------------------------------------------------------------------------
(* Runs of the two viewing pages.                                          *)

\* Leaving the input page drops the state of its widgets.
OpenPage(shown) ==
    /\ MapShown
    /\ view' = shown
    /\ pc' = "idle"
    /\ point' = NoPoint
    /\ button' = NoButton
    /\ response' = NoResponse
    /\ zipcode' = ""
    /\ raised' = "none"
    /\ message' = "none"
    /\ editing' = 0
    /\ parsed' = NotParsed
    /\ UNCHANGED <<file, text>>

\* Home_page.py with entry i selected (lines 59-78): the entry is found
\* through its zipcode, so a row whose Zipcode is NaN cannot be selected.
HomePage(i) ==
    /\ i \in 1..Len(file)
    /\ load_data_home(file)[i].zone.k # "nan"
    /\ LET shown == EvaluateFrom(1, load_data_home(file)[i], <<>>)
       IN  OpenPage([page |-> "home", entry |-> i, exc |-> shown.exc,
                     statuses |-> shown.statuses])

\* 3_OrgUseData_Dashboard.py with the zipcodes in selected chosen.
Dashboard(selected) ==
    /\ LET data == load_data_dashboard(file)
           rows == filtered_data(data, selected)
       IN  /\ OpenPage([page |-> "dashboard", rows |-> rows,
                        violations |->
                            [ p \in ParamSet |->
                                non_compliant_data(data, rows, p) ]])

---------------------------------------------------------------------------

Next ==
    \/ \E p \in Points : ClickMap(p)
    \/ ChangeInput
    \/ PressSubmit
    \/ \E i \in 1..MaxRecords : PressEdit(i)
    \/ \E i \in 1..MaxRecords : PressSave(i)
    \/ \E i \in 1..MaxRecords : PressDelete(i)
    \/ \E resp \in Responses : Respond(resp)
    \/ \E input \in Inputs : ParseFails(input)
    \/ \E input \in Inputs : Render(input)
    \/ \E confirm \in ConfirmTexts, input \in Inputs : Submit(confirm, input)
    \/ \E input \in Inputs : Edit(input)
    \/ \E input \in Inputs : Save(input)
    \/ \E input \in Inputs : Delete(input)
    \/ \E i \in 1..MaxRecords : HomePage(i)
    \/ \E selected \in SUBSET Zipcodes(load_data_dashboard(file)) :
           Dashboard(selected)

Spec == Init /\ [][Next]_vars

\* A run, once started, goes on to its end; when the remote service
\* answers, and what the user does next, is up to them.
RunToEnd ==
    \/ \E input \in Inputs : ParseFails(input)
    \/ \E input \in Inputs : Render(input)
    \/ \E confirm \in ConfirmTexts, input \in Inputs : Submit(confirm, input)
    \/ \E input \in Inputs : Edit(input)
    \/ \E input \in Inputs : Save(input)
    \/ \E input \in Inputs : Delete(input)

FairSpec == Spec /\ WF_vars(RunToEnd)

---------------------------------------------------------------------------
(* parse_extracted_text on its own, over bounded texts.                    *)

\* The pieces the texts are assembled from.
Pieces ==
    { <<"p", "H">>,
      <<"p", "h", ":">>,
      <<"L", "e", "a", "d", " ">>,
      <<" ">>,
      <<"7", ".", "2">>,
      <<".", "5">>,
      <<".">>,
      <<"x">> }

RECURSIVE Flatten(_)
Flatten(pieces) ==
    IF pieces = <<>> THEN <<>> ELSE Head(pieces) \o Flatten(Tail(pieces))

Texts ==
    { Flatten(ps) : ps \in UNION { [1..n -> Pieces] : n \in 0..MaxPieces } }
    \cup
    { <<"p", "H", ":", " ", "7", ".", "2", " ", "C", "h", "l", "o", "r", "i", "n", "e", " ", "1", ".", "5", "m", "g", "/", "L">>,
      <<"p", "H", " ", "1", ".", "2", ".", "3", " ", "L", "e", "a", "d", " ", "4">>,
      <<"P", "H", " ", "8", ".", "5", "0", " ", "C", "H", "L", "O", "R", "I", "N", "E", ":", "4", " ", "h", "a", "r", "d", "n", "e", "s", "s", " ", "1", "2", "0", " ", "N", "i", "t", "r", "a", "t", "e", "s", "	", "1", "0", ".", " ", "l", "e", "a", "d", ":", " ", ".", "5">> }

InitParse ==
    /\ pc = "idle"
    /\ point = NoPoint
    /\ button = NoButton
    /\ response = NoResponse
    /\ zipcode = ""
    /\ raised = "none"
    /\ message = "none"
    /\ file = <<>>
    /\ editing = 0
    /\ view = NoView
    /\ text \in Texts
    /\ parsed = NotParsed

\* readings = parse_extracted_text(extracted_text), line 146.
ParseText ==
    /\ parsed = NotParsed
    /\ parsed' = parse_extracted_text(text)
    /\ UNCHANGED <<pc, point, button, response, zipcode, raised, message,
                   file, editing, view, text>>

NextParse == ParseText

SpecParse == InitParse /\ [][NextParse]_vars

---------------------------------------------------------------------------
(* The claims about the geocoder.                                          *)

\* The remote call succeeded: a JSON object with an address object that has
\* a postcode.
WellFormed(resp) ==
    /\ resp.kind = "json"
    /\ resp.data \in
         { [t |-> "dict", has |-> {"address"}, address |-> JAddress(z)] :
               z \in RemotePostcodes }

\* The request itself failed: no connection, a timeout, an error status.
NetworkFailed(resp) == resp.kind \in {"ConnectionError", "Timeout", "HTTPError"}

\* The call of get_zipcode_from_coordinates of this run has come back.
GeocodeDone == response # NoResponse

\* The entry of the table at the least distance from pt, the first of them
\* in table order.
NearestFirst(pt) ==
    LET d(k) == GeodesicSq(pt.lat, pt.lon, known_zipcode_coords[k].lat,
                           known_zipcode_coords[k].lon)
        best == CHOOSE k \in 1..Len(known_zipcode_coords) :
                    \A j \in 1..Len(known_zipcode_coords) :
                        d(k) < d(j) \/ (d(k) = d(j) /\ k <= j)
    IN  known_zipcode_coords[best].zip

\* C1: whatever the remote service does, get_zipcode_from_coordinates
\* raises nothing and returns a zone that is not empty.
C1_AlwaysReturnsZone ==
    /\ pc # "failed in geocode"
    /\ (GeocodeDone /\ pc = "body" => zipcode \notin {"", None})

\* C2: whenever the remote call fails, the call returns the entry of the
\* fallback table nearest to the point, the first in table order among
\* equals.
C2_FailureGivesNearest ==
    GeocodeDone /\ ~WellFormed(response)
        => pc = "body" /\ zipcode = NearestFirst(point)

\* Beside C2: whenever the remote call fails and the call does return, it
\* returns the nearest entry, the first in table order among equals.
FallbackReturnsNearest ==
    GeocodeDone /\ ~WellFormed(response) /\ pc = "body"
        => zipcode = NearestFirst(point)

\* Beside C2: at the point of the model where "95113" and "95116" are
\* equally near, the earlier entry is returned.
TieIsBrokenByOrder ==
    /\ GeocodeDone /\ NetworkFailed(response) /\ pc = "body"
    /\ point = [lat |-> 373347, lon |-> -1218687]
    /\ zipcode = "95113"
    /\ GeodesicSq(point.lat, point.lon, 373333, -1218907)
         = GeodesicSq(point.lat, point.lon, 373496, -1218569)
TieIsNotReached == ~TieIsBrokenByOrder

C3Point == [lat |-> 373500, lon |-> -1219000]

DistanceTo(zip, pt) ==
    LET k == CHOOSE j \in 1..Len(known_zipcode_coords) :
                 known_zipcode_coords[j].zip = zip
    IN  GeodesicSq(pt.lat, pt.lon, known_zipcode_coords[k].lat,
                   known_zipcode_coords[k].lon)

\* C3, as claimed: with the request failing, the point (37.35, -121.90)
\* resolves to "95112".
C3_ResolvesTo95112 ==
    GeocodeDone /\ NetworkFailed(response) /\ point = C3Point
        => pc = "body" /\ zipcode = "95112"

\* C3, amended: with the request failing, the point (37.35, -121.90)
\* resolves to "95110", and "95110" is the entry at the least distance from
\* that point.
C3_ResolvesTo95110 ==
    GeocodeDone /\ NetworkFailed(response) /\ point = C3Point
        => /\ pc = "body"
           /\ zipcode = "95110"
           /\ \A k \in 1..Len(known_zipcode_coords) :
                  DistanceTo("95110", C3Point)
                      <= DistanceTo(known_zipcode_coords[k].zip, C3Point)

C3_Witness ==
    /\ GeocodeDone /\ NetworkFailed(response) /\ point = C3Point
    /\ pc = "body" /\ zipcode = "95110"

\* C10: every call of get_zipcode_from_coordinates returns in the end,
\* even if the remote service never answers.
C10_GeocodeReturns == (pc = "waiting") ~> (pc # "waiting")

---------------------------------------------------------------------------
(* The claims about the stored records.                                    *)

Complete(row) == \A p \in ParamSet : ~row.vals[p].nan

\* C4: a record is stored only with a value for each of the five
\* parameters.
C4_OnlyCompleteRecords == \A i \in 1..Len(file) : Complete(file[i])

\* C5: every stored record has a zone that is not empty.
C5_ZoneNeverEmpty == \A i \in 1..Len(file) : file[i].zone # ""

\* Beside C5: a submit without a zipcode leaves the file as it is.
EmptyZoneRejected ==
    [][\A input \in Inputs : Submit("", input) => file' = file]_vars

\* Beside C5: no run started by "Save Changes" writes the file.
SaveWritesNothing ==
    [][\A input \in Inputs : Save(input) => file' = file]_vars

\* C11: a run that Submit started and in which readings is the empty
\* dict (the parser recognised no parameter, or no image was uploaded)
\* leaves the file as it is and shows the error that asks for the fields to
\* be filled out.
C11_EmptyMappingNotSubmitted ==
    [][\A confirm \in ConfirmTexts, input \in Inputs :
           Submit(confirm, input) /\ ~NonEmpty(CollectReadings(input).readings)
               => /\ file' = file
                  /\ message' = "Please ensure all data fields are filled out"]_vars

\* A Submit run has ended in which the parser returned the empty dict.
C11_Witness ==
    /\ pc = "idle"
    /\ parsed = [exc |-> "none", readings |-> EmptyDict]
    /\ message = "Please ensure all data fields are filled out"

---------------------------------------------------------------------------
(* The claims about the two views.                                         *)

\* The bands of the specification.
Band(param) ==
    CASE param = "pH" -> <<Num(65, 1), Num(85, 1)>>
      [] param = "Chlorine (mg/L)" -> <<Num(0, 0), Num(4, 0)>>
      [] param = "Hardness (mg/L as CaCO3)" -> <<Num(0, 0), Num(120, 0)>>
      [] param = "Nitrates (mg/L)" -> <<Num(0, 0), Num(10, 0)>>
      [] param = "Lead (ug/L)" -> <<Num(0, 0), Num(15, 0)>>

InBand(param, value) ==
    LessEq(Band(param)[1], value) /\ LessEq(value, Band(param)[2])

StatusesOf(row, n) ==
    [ k \in 1..n |->
        [parameter |-> Params[k], value |-> row.vals[Params[k]],
         in_range |-> InBand(Params[k], row.vals[Params[k]])] ]

\* C8: the home page shows, for the record it displays, one status per
\* parameter, in the order pH, Chlorine, Hardness, Nitrates, Lead, each with
\* in_range = (min <= value <= max), both bounds included.
C8_OneStatusPerParameter ==
    view.page = "home"
        => /\ view.exc = "none"
           /\ view.statuses = StatusesOf(load_data(file)[view.entry],
                                         Len(Params))

\* Beside C8: the statuses the home page does show are those, in that order.
ShownStatusesAreRight ==
    view.page = "home"
        => view.statuses = StatusesOf(load_data(file)[view.entry],
                                      Len(view.statuses))

\* Beside C8: for a record with all five readings the home page shows all
\* five statuses.
CompleteRecordFullyShown ==
    view.page = "home" /\ Complete(file[view.entry])
        => view.exc = "none" /\ Len(view.statuses) = Len(Params)

\* C9: for every parameter the dashboard reports exactly the records whose
\* status on the home page is out of range, records with a missing value
\* included.
C9_SameViolations ==
    view.page = "dashboard"
        => \A p \in ParamSet :
               view.violations[p] =
                   { i \in view.rows :
                       ~is_within_safe_range(
                            load_data(file)[i].vals[p],
                            SAFE_RANGES(p).min, SAFE_RANGES(p).max) }

\* Beside C9: the two agree on the records that have a value for the
\* parameter.
SameViolationsWhereValued ==
    view.page = "dashboard"
        => \A p \in ParamSet :
               { i \in view.violations[p] : ~file[i].vals[p].nan } =
                   { i \in view.rows :
                       /\ ~file[i].vals[p].nan
                       /\ ~is_within_safe_range(
                              load_data(file)[i].vals[p],
                              SAFE_RANGES(p).min, SAFE_RANGES(p).max) }

---------------------------------------------------------------------------
(* The claims about the parser, under SpecParse.                           *)

Called == parsed.exc # "not called"

TokenIsNumber(token) == Dots(token) <= 1 /\ HasDigit(token)

\* The places where the label of param stands, then colons and white space
\* or nothing, then a number.
Occurrences(param, txt) ==
    { p \in 1..Len(txt) :
        /\ MatchesAt(Label(param), txt, p)
        /\ TokenIsNumber(Group1(Label(param), txt, p)) }

FirstOf(places) == CHOOSE p \in places : \A q \in places : p <= q

\* C6: for every text the result maps each parameter to the number after
\* the first occurrence of its label followed by a number, and has no entry
\* for a parameter without such an occurrence.
C6_FirstLabelledNumber ==
    Called
        => /\ parsed.exc = "none"
           /\ \A param \in ParamSet :
                  LET places == Occurrences(param, text)
                  IN  IF places = {}
                      THEN param \notin DOMAIN parsed.readings
                      ELSE /\ param \in DOMAIN parsed.readings
                           /\ parsed.readings[param] =
                                  Float(Group1(Label(param), text,
                                               FirstOf(places)))

\* Beside C6: the same, for the texts the parser returns on.
FirstLabelledNumberWhenReturned ==
    Called /\ parsed.exc = "none"
        => \A param \in ParamSet :
               LET places == Occurrences(param, text)
               IN  IF places = {}
                   THEN param \notin DOMAIN parsed.readings
                   ELSE /\ param \in DOMAIN parsed.readings
                        /\ parsed.readings[param] =
                               Float(Group1(Label(param), text,
                                            FirstOf(places)))

\* Beside C6: the two examples of the specification.
ParserExamples ==
    /\ (Called /\ text = <<"p", "H", ":", " ", "7", ".", "2", " ", "C", "h", "l", "o", "r", "i", "n", "e", " ", "1", ".", "5", "m", "g", "/", "L">>
          => /\ parsed.exc = "none"
             /\ DOMAIN parsed.readings = {"pH", "Chlorine (mg/L)"}
             /\ parsed.readings["pH"] = Num(72, 1)
             /\ parsed.readings["Chlorine (mg/L)"] = Num(15, 1))
    /\ (Called /\ text = <<>>
          => parsed.exc = "none" /\ DOMAIN parsed.readings = {})

\* C7: the parser fails on no text; a parameter whose label is followed by
\* digits and dots that are no float is left out of the result.
C7_ParserNeverFails ==
    Called
        => /\ parsed.exc = "none"
           /\ \A param \in ParamSet :
                  LET p == Search(Label(param), text)
                  IN  p # 0 /\ ~TokenIsNumber(Group1(Label(param), text, p))
                          => param \notin DOMAIN parsed.readings

===========================================================================
